---- MODULE Spec2Model ----
(***************************************************************************)
(* Model of the selection state machine of src/src/select.rs: one Select   *)
(* handle driven by a caller loop on its owning thread, the channel        *)
(* endpoints it is offered, the thread's parking handle (actor), and the   *)
(* partner threads at the other end of every channel.                      *)
(*                                                                         *)
(* Candidate i (1..n) is an operation on channel i; the partner of         *)
(* channel i holds the opposite endpoint.  Channel flavors, the actor and  *)
(* endpoint ids are not part of select.rs; they are modelled from the      *)
(* interface the specification gives for them.                             *)
(***************************************************************************)
EXTENDS Integers, Sequences, FiniteSets, TLC

\* ------------------------------------------------------------------ bounds
\* Largest number of candidates of one selection.
MaxCand == 2
\* Largest number of messages a partner leaves in an unbounded (List) channel.
MaxBuf == 1
\* The thread-local RNG has served PriorStride * k earlier gen_random calls,
\* for some k in 0..MaxPrior, when the Select is created.
MaxPrior == 1
PriorStride == 5
\* Capacity of a bounded (Array) channel of the model.
ArrayCap == 1

\* ------------------------------------------------------- program constants
\* Width of the thread-local generator: Cell<u32>.
RngBits == 32
\* Initial value of the thread-local generator: Cell::new(1).
RngSeed == 1
\* The id the selecting thread marks itself with: actor::current().select(1).
SelfId == 1

VARIABLES
    cfg,        \* the selection: n, dir[i], flavor[i], hasDeadline, zero
                \* (never changes)
    machine,    \* Select.machine
    rng,        \* the thread-local RNG of the selecting thread, as RngBits bits
    expired,    \* Instant::now() >= deadline
    chans,      \* chans[i]: the channel of candidate i
    selected,   \* the actor's wake marker: 0 unset, else the id it was woken with
    slot,       \* the actor's request slot: <<>> or <<value>>
    pc,         \* the selecting thread: "loop", "parked", "done", "hung",
                \* "spin", "dropped"
    nxt,        \* the candidate the caller loop offers next
    last,       \* the outcome of the latest offer
    hist,       \* history: what the handle has done so far
    pgot,       \* pgot[i]: what the partner of channel i has received
    roundLive,  \* roundLive[i]: live deliveries of candidate i in the current round
    discSeen    \* candidates whose attempt reported Disconnected in this Try round

vars == <<cfg, machine, rng, expired, chans, selected, slot, pc, nxt, last,
          hist, pgot, roundLive, discSeen>>

\* ------------------------------------------------------ ids and values
\* Endpoint ids: stable, distinct and not SelfId.  No endpoint has the id 0
\* (unset), unless the selection is given one: candidate cfg.zero.
Id(i) == IF cfg.zero = i THEN 0 ELSE i + 1
\* The value the caller gives to its send offer of candidate i.
SendVal(i) == i
\* The value the partner of channel i sends.
PartnerVal(i) == 10 + i

Cands == 1..cfg.n
Min2(a, b) == IF a < b THEN a ELSE b

\* ------------------------------------------------------------ gen_random
BitIdx == 0..(RngBits - 1)
XorShl(x, s) == [k \in BitIdx |-> (x[k] + (IF k >= s THEN x[k - s] ELSE 0)) % 2]
XorShr(x, s) ==
    [k \in BitIdx |-> (x[k] + (IF k + s < RngBits THEN x[k + s] ELSE 0)) % 2]

RECURSIVE BitsOf(_, _)
BitsOf(x, k) == IF k = 0 THEN <<>> ELSE <<x % 2>> \o BitsOf(x \div 2, k - 1)
ToV(x) == LET s == BitsOf(x, RngBits) IN [k \in BitIdx |-> s[k + 1]]

\* x ^= x << 13; x ^= x >> 17; x ^= x << 5  (Wrapping<u32>)
XorShift(x) ==
    CHOOSE r \in {XorShl(c, 5) : c \in {XorShr(b, 17) : b \in
                   {XorShl(a, 13) : a \in {x}}}} : TRUE

\* (x as usize) % n, most significant bit first
RECURSIVE ModV(_, _, _, _)
ModV(x, k, n, r) == IF k < 0 THEN r ELSE ModV(x, k - 1, n, (2 * r + x[k]) % n)

\* The value gen_random(ceil) returns when the generator has advanced to x.
GenRandom(ceil, x) ==
    IF ceil = 0 THEN 0
    ELSE LET v == CHOOSE y \in {x} : TRUE IN ModV(v, RngBits - 1, ceil, 0)

RECURSIVE Iter(_, _)
Iter(x, k) == IF k = 0 THEN x ELSE Iter(XorShift(x), k - 1)
\* The generator states a thread can hold when a Select is created.
Seeds == {Iter(ToV(RngSeed), PriorStride * k) : k \in 0..MaxPrior}

\* --------------------------------------------------------------- machine
Counting(len, id_first) ==
    [shape |-> "Counting", len |-> len, id_first |-> id_first, pos |-> 0,
     state |-> "None", closed_count |-> 0, closed_countdown |-> 0, id |-> 0,
     start |-> 0]

\* Select::with_deadline
NewMachine == Counting(0, 0)

\* Select::timed_out, Select::disconnected
timed_out == machine.shape = "Initialized" /\ machine.state = "TimedOut"
disconnected == machine.shape = "Initialized" /\ machine.state = "Disconnected"

\* Machine::step, Counting, id_first == id: the machine becomes Initialized.
CountingToInitialized(m, x) ==
    [shape |-> "Initialized", len |-> m.len, id_first |-> m.id_first, pos |-> 0,
     state |-> "Try", closed_count |-> 0, closed_countdown |-> 0, id |-> 0,
     start |-> GenRandom(m.len, x)]

\* Machine::step, Counting, id_first # id: one more candidate is counted.
\* CountingNext that overwrites id_first with every id.
CountingNextBad(m, id) == Counting(m.len + 1, id)
CountingNext(m, id) ==
    Counting(m.len + 1, IF m.id_first = 0 THEN id ELSE m.id_first)

\* Machine::step, Initialized: is offer position p live?
\* Live with the window one position too long.
LiveBad(m, p) == m.start <= p /\ p <= m.start + m.len
Live(m, p) == m.start <= p /\ p < m.start + m.len

\* Machine::step, Initialized: is the round over?
RoundOver(m) == m.pos >= 2 * m.len

\* ------------------------------------------------- the context of an offer
\* The part of the state one offer reads and writes, with the offer's result:
\* ok/ret the Result, xfer the real transfers made, put/take the uses of the
\* request slot, rep what the endpoint reported, hung a take_request that
\* finds no request, ev the calls of the park protocol made so far in the
\* current Try .. FinalTry cycle.
Ctx ==
    [m |-> machine, chans |-> chans, sel |-> selected, slot |-> slot,
     pgot |-> pgot, ok |-> FALSE, ret |-> 0, xfer |-> 0, put |-> 0, take |-> 0,
     hung |-> FALSE, rep |-> "none", isLive |-> FALSE, ev |-> hist.cycle,
     spin |-> FALSE]

\* One call of the park protocol: e is "reset", "sub" (the registration of
\* candidate c, d: its endpoint was disconnected then), "wait", "unsub" or
\* "read" (the winner id is read).
Ev(e, c, d) == [e |-> e, c |-> c, d |-> d]
Emit(w, e, c, d) == [w EXCEPT !.ev = Append(@, Ev(e, c, d))]
\* reset() opens a cycle when the one before is complete.
EmitReset(w) ==
    IF w.ev = <<>> \/ w.ev[Len(w.ev)].e = "read"
    THEN [w EXCEPT !.ev = <<Ev("reset", 0, FALSE)>>]
    ELSE Emit(w, "reset", 0, FALSE)

\* ------------------------------------------------------------ the actor
\* actor.select(id): mark the thread as woken by id, unless it is marked.
ActorSelect(sel, id) == IF sel = 0 THEN id ELSE sel
\* actor.reset(): clear the wake marker.
ActorReset == 0
\* actor.wait_until(deadline) returns once the thread is marked or the
\* deadline has passed.
WaitOver == selected # 0 \/ (cfg.hasDeadline /\ expired)

\* ------------------------------------------------------------- endpoints
NewChan == [buf |-> <<>>, disc |-> FALSE, reg |-> 0, waiting |-> FALSE,
            taker |-> FALSE]

\* tx.try_send(v) by the selecting thread on channel i: <<kind, context>>.
\* Zero: succeeds only by handing v to a receiver blocked in recv.
TrySend(w, i, v) ==
    LET c == w.chans[i] IN
    IF c.disc THEN [kind |-> "disc", w |-> w]
    ELSE CASE cfg.flavor[i] = "List" ->
                [kind |-> "ok", w |-> [w EXCEPT !.chans[i].buf = Append(@, v)]]
           [] cfg.flavor[i] = "Array" ->
                IF Len(c.buf) >= ArrayCap THEN [kind |-> "full", w |-> w]
                ELSE [kind |-> "ok", w |-> [w EXCEPT !.chans[i].buf = Append(@, v)]]
           [] cfg.flavor[i] = "Zero" ->
                IF c.waiting
                THEN [kind |-> "ok",
                      w |-> [w EXCEPT !.chans[i].waiting = FALSE,
                                      !.pgot[i] = Append(@, v)]]
                ELSE [kind |-> "full", w |-> w]

\* rx.try_recv() by the selecting thread on channel i: <<kind, value, context>>.
\* Zero: succeeds only by taking the value of a sender blocked in send.
TryRecv(w, i) ==
    LET c == w.chans[i] IN
    IF cfg.flavor[i] = "Zero"
    THEN IF c.waiting
         THEN [kind |-> "ok", val |-> PartnerVal(i),
               w |-> [w EXCEPT !.chans[i].waiting = FALSE]]
         ELSE [kind |-> IF c.disc THEN "disc" ELSE "empty", val |-> 0, w |-> w]
    ELSE IF c.buf # <<>>
         THEN [kind |-> "ok", val |-> Head(c.buf),
               w |-> [w EXCEPT !.chans[i].buf = Tail(@)]]
         ELSE [kind |-> IF c.disc THEN "disc" ELSE "empty", val |-> 0, w |-> w]

is_disconnected(w, i) == w.chans[i].disc

can_send(w, i) ==
    CASE cfg.flavor[i] = "List" -> TRUE
      [] cfg.flavor[i] = "Array" -> Len(w.chans[i].buf) < ArrayCap
      [] cfg.flavor[i] = "Zero" -> w.chans[i].waiting

can_recv(w, i) ==
    IF cfg.flavor[i] = "Zero" THEN w.chans[i].waiting ELSE w.chans[i].buf # <<>>

\* register / promise_send / promise_recv, and their retraction
Register(w, i) == [w EXCEPT !.chans[i].reg = @ + 1]
Unregister(w, i) == [w EXCEPT !.chans[i].reg = IF @ > 0 THEN @ - 1 ELSE 0]

\* actor.put_request(value, id) / actor.take_request(id) on the own actor
PutRequest(w, v) == [w EXCEPT !.slot = <<v>>, !.put = 1]
TakeRequest(w) ==
    IF w.slot = <<>> THEN [w EXCEPT !.hung = TRUE]
    ELSE [w EXCEPT !.slot = <<>>, !.take = 1, !.ret = w.slot[1]]

\* ------------------------------------------------------------ State::send
Fail(w, v) == [w EXCEPT !.ok = FALSE, !.ret = v]
Okay(w) == [w EXCEPT !.ok = TRUE, !.xfer = 1]

\* State::Try: one pass of the backoff loop; the retries of a Full channel
\* see what a later offer sees.
\* SendTry whose Ok arm falls through to Err(value).
SendTryBad(w, i, v) ==
    LET r == TrySend(w, i, v) IN
    CASE r.kind = "ok" -> Fail([r.w EXCEPT !.xfer = 1], v)
      [] r.kind = "full" -> Fail([r.w EXCEPT !.rep = "full"], v)
      [] r.kind = "disc" ->
            Fail([r.w EXCEPT !.m.closed_count = @ + 1, !.rep = "disc"], v)
\* SendTry that counts a Full channel as closed.
SendTryFull(w, i, v) ==
    LET r == TrySend(w, i, v) IN
    CASE r.kind = "ok" -> Okay(r.w)
      [] r.kind = "full" ->
            Fail([r.w EXCEPT !.m.closed_count = @ + 1, !.rep = "full"], v)
      [] r.kind = "disc" ->
            Fail([r.w EXCEPT !.m.closed_count = @ + 1, !.rep = "disc"], v)
SendTry(w, i, v) ==
    LET r == TrySend(w, i, v) IN
    CASE r.kind = "ok" -> Okay(r.w)
      [] r.kind = "full" -> Fail([r.w EXCEPT !.rep = "full"], v)
      [] r.kind = "disc" ->
            Fail([r.w EXCEPT !.m.closed_count = @ + 1, !.rep = "disc"], v)

SendSubscribe(w, i, v) ==
    LET w0 == Emit(w, "sub", i, is_disconnected(w, i))
        w1 == IF cfg.flavor[i] = "List" THEN w0 ELSE Register(w0, i)
        w2 == IF is_disconnected(w1, i)
              THEN [w1 EXCEPT !.m.closed_countdown = @ - 1] ELSE w1
        w3 == IF can_send(w2, i)
              THEN [w2 EXCEPT !.sel = ActorSelect(@, SelfId)] ELSE w2
    IN  Fail(w3, v)

\* SendUnsubscribe that leaves the registration in place.
SendUnsubscribeBad(w, i, v) == Fail(Emit(w, "unsub", i, FALSE), v)
SendUnsubscribe(w, i, v) ==
    LET w0 == Emit(w, "unsub", i, FALSE) IN
    Fail(IF cfg.flavor[i] = "List" THEN w0 ELSE Unregister(w0, i), v)

\* SendFinalTry without the comparison with the winner id.
SendFinalTryBad(w, i, v) ==
    IF cfg.flavor[i] = "Zero" THEN Okay(PutRequest(w, v))
    ELSE LET r == TrySend(w, i, v) IN
         IF r.kind = "ok" THEN Okay(r.w)
         ELSE Fail([r.w EXCEPT !.rep = r.kind], v)
SendFinalTry(w, i, v) ==
    IF Id(i) # w.m.id THEN Fail(w, v)
    ELSE IF cfg.flavor[i] = "Zero" THEN Okay(PutRequest(w, v))
    ELSE LET r == TrySend(w, i, v) IN
         IF r.kind = "ok" THEN Okay(r.w)
         ELSE Fail([r.w EXCEPT !.rep = r.kind], v)

\* StateSend whose terminal arms attempt the send like Try.
StateSendBad(w, i, v) ==
    CASE w.m.state = "Subscribe" -> SendSubscribe(w, i, v)
      [] w.m.state = "Unsubscribe" -> SendUnsubscribe(w, i, v)
      [] w.m.state = "FinalTry" -> SendFinalTry(w, i, v)
      [] OTHER -> SendTry(w, i, v)
StateSend(w, i, v) ==
    CASE w.m.state = "Try" -> SendTry(w, i, v)
      [] w.m.state = "Subscribe" -> SendSubscribe(w, i, v)
      [] w.m.state = "Unsubscribe" -> SendUnsubscribe(w, i, v)
      [] w.m.state = "FinalTry" -> SendFinalTry(w, i, v)
      [] OTHER -> Fail(w, v)

\* ------------------------------------------------------------ State::recv
Got(w, v) == [w EXCEPT !.ok = TRUE, !.ret = v, !.xfer = 1]

\* RecvTry that does not count a Disconnected endpoint.
RecvTryBad(w, i) ==
    LET r == TryRecv(w, i) IN
    CASE r.kind = "ok" -> Got(r.w, r.val)
      [] r.kind = "empty" -> Fail([r.w EXCEPT !.rep = "empty"], 0)
      [] r.kind = "disc" -> Fail([r.w EXCEPT !.rep = "disc"], 0)
RecvTry(w, i) ==
    LET r == TryRecv(w, i) IN
    CASE r.kind = "ok" -> Got(r.w, r.val)
      [] r.kind = "empty" -> Fail([r.w EXCEPT !.rep = "empty"], 0)
      [] r.kind = "disc" ->
            Fail([r.w EXCEPT !.m.closed_count = @ + 1, !.rep = "disc"], 0)

\* RecvSubscribe that leaves the registration out.
RecvSubscribeBad(w, i) ==
    LET w1 == Emit(w, "sub", i, is_disconnected(w, i))
        w2 == IF is_disconnected(w1, i)
              THEN [w1 EXCEPT !.m.closed_countdown = @ - 1] ELSE w1
        w3 == IF can_recv(w2, i)
              THEN [w2 EXCEPT !.sel = ActorSelect(@, SelfId)] ELSE w2
    IN  Fail(w3, 0)
RecvSubscribe(w, i) ==
    LET w1 == Register(Emit(w, "sub", i, is_disconnected(w, i)), i)
        w2 == IF is_disconnected(w1, i)
              THEN [w1 EXCEPT !.m.closed_countdown = @ - 1] ELSE w1
        w3 == IF can_recv(w2, i)
              THEN [w2 EXCEPT !.sel = ActorSelect(@, SelfId)] ELSE w2
    IN  Fail(w3, 0)

RecvUnsubscribe(w, i) == Fail(Unregister(Emit(w, "unsub", i, FALSE), i), 0)

\* RecvFinalTry without the comparison with the winner id.
RecvFinalTryBad(w, i) ==
    IF cfg.flavor[i] = "Zero"
    THEN LET t == TakeRequest(w) IN
         IF t.hung THEN t ELSE [t EXCEPT !.ok = TRUE, !.xfer = 1]
    ELSE LET r == TryRecv(w, i) IN
         IF r.kind = "ok" THEN Got(r.w, r.val)
         ELSE Fail([r.w EXCEPT !.rep = r.kind], 0)
RecvFinalTry(w, i) ==
    IF Id(i) # w.m.id THEN Fail(w, 0)
    ELSE IF cfg.flavor[i] = "Zero"
    THEN LET t == TakeRequest(w) IN
         IF t.hung THEN t ELSE [t EXCEPT !.ok = TRUE, !.xfer = 1]
    ELSE LET r == TryRecv(w, i) IN
         IF r.kind = "ok" THEN Got(r.w, r.val)
         ELSE Fail([r.w EXCEPT !.rep = r.kind], 0)

StateRecv(w, i) ==
    CASE w.m.state = "Try" -> RecvTry(w, i)
      [] w.m.state = "Subscribe" -> RecvSubscribe(w, i)
      [] w.m.state = "Unsubscribe" -> RecvUnsubscribe(w, i)
      [] w.m.state = "FinalTry" -> RecvFinalTry(w, i)
      [] OTHER -> Fail(w, 0)

\* ------------------------------------------------------ State::transition
ToState(m, st) ==
    [m EXCEPT !.state = st, !.closed_count = 0, !.closed_countdown = 0, !.id = 0]

\* State::Try: reset the actor and subscribe, or Disconnected.
\* TransitionTry with closed_count <= len.
TransitionTryBad(w) ==
    IF w.m.closed_count <= w.m.len
    THEN [EmitReset(w) EXCEPT
                   !.sel = ActorReset,
                   !.m = [ToState(w.m, "Subscribe") EXCEPT
                             !.closed_countdown = w.m.closed_count]]
    ELSE [w EXCEPT !.m = ToState(@, "Disconnected")]
TransitionTry(w) ==
    IF w.m.closed_count < w.m.len
    THEN [EmitReset(w) EXCEPT
                   !.sel = ActorReset,
                   !.m = [ToState(w.m, "Subscribe") EXCEPT
                             !.closed_countdown = w.m.closed_count]]
    ELSE [w EXCEPT !.m = ToState(@, "Disconnected")]

\* State::Subscribe, before wait_until: the degenerate pre-mark.
\* SubscribePremark that fires when the countdown has reached zero.
SubscribePremarkBad(m, sel) ==
    IF m.closed_countdown = 0 THEN ActorSelect(sel, SelfId) ELSE sel
SubscribePremark(m, sel) ==
    IF m.closed_countdown < 0 THEN ActorSelect(sel, SelfId) ELSE sel

\* State::Subscribe, after wait_until has returned.
\* TransitionSubscribe that clears the wake marker once more after the wait.
TransitionSubscribeBad(w) ==
    [EmitReset(w) EXCEPT !.sel = ActorReset, !.m = ToState(w.m, "Unsubscribe")]
TransitionSubscribe(w) == [w EXCEPT !.m = ToState(@, "Unsubscribe")]

\* State::Unsubscribe: read the winner.
TransitionUnsubscribe(w) ==
    [Emit(w, "read", 0, FALSE) EXCEPT
        !.m = [ToState(w.m, "FinalTry") EXCEPT !.id = w.sel]]

\* State::FinalTry: back to Try, or TimedOut when the deadline has passed.
\* TransitionFinalTry that never looks at the deadline.
TransitionFinalTryBad(w) ==
    [w EXCEPT !.m = ToState(@, "Try")]
TransitionFinalTry(w) ==
    IF cfg.hasDeadline /\ expired
    THEN [w EXCEPT !.m = ToState(@, "TimedOut")]
    ELSE [w EXCEPT !.m = ToState(@, "Try")]

\* State::transition without the blocking Subscribe arm.
\* Transition that looks at the deadline at the end of every round.
TransitionEager(w) ==
    IF cfg.hasDeadline /\ expired
       /\ w.m.state \in {"Try", "Subscribe", "Unsubscribe", "FinalTry"}
    THEN [w EXCEPT !.m = ToState(@, "TimedOut")]
    ELSE CASE w.m.state = "Try" -> TransitionTry(w)
           [] w.m.state = "Subscribe" -> TransitionSubscribe(w)
           [] w.m.state = "Unsubscribe" -> TransitionUnsubscribe(w)
           [] w.m.state = "FinalTry" -> TransitionFinalTry(w)
           [] OTHER -> w
Transition(w) ==
    CASE w.m.state = "Try" -> TransitionTry(w)
      [] w.m.state = "Subscribe" -> TransitionSubscribe(w)
      [] w.m.state = "Unsubscribe" -> TransitionUnsubscribe(w)
      [] w.m.state = "FinalTry" -> TransitionFinalTry(w)
      [] OTHER -> w

\* ---------------------------------------------------------- Machine::step
\* Initialized, pos < 2 * len: advance, and deliver the state when live.
Deliver(w, i) ==
    LET p == w.m.pos
        w1 == [w EXCEPT !.m.pos = p + 1]
    IN  IF Live(w.m, p)
        THEN [(IF cfg.dir[i] = "send" THEN StateSend(w1, i, SendVal(i))
               ELSE StateRecv(w1, i)) EXCEPT !.isLive = TRUE]
        ELSE IF cfg.dir[i] = "send" THEN Fail(w1, SendVal(i)) ELSE Fail(w1, 0)

\* Initialized, pos >= 2 * len: transition, pos = 0, and go round the loop.
\* NextRound that returns None after the transition instead of looping.
NextRoundBad(w, i) ==
    Fail([Transition(w) EXCEPT !.m.pos = 0],
         IF cfg.dir[i] = "send" THEN SendVal(i) ELSE 0)
NextRound(w, i) == Deliver([Transition(w) EXCEPT !.m.pos = 0], i)

\* The loop of Machine::step from an Initialized machine: a position inside
\* the round is delivered; a round that is over is followed by transition and
\* pos = 0, and when that leaves the machine as it was the loop repeats the
\* same iteration for ever (spin).
RECURSIVE StepLoop(_, _)
StepLoop(w, i) ==
    IF ~RoundOver(w.m) THEN Deliver(w, i)
    ELSE LET w2 == [Transition(w) EXCEPT !.m.pos = 0] IN
         IF w2.m = w.m THEN [w2 EXCEPT !.spin = TRUE] ELSE StepLoop(w2, i)

\* ------------------------------------------------------------ bookkeeping
NoLive == [i \in Cands |-> 0]
Given(i) == IF cfg.dir[i] = "send" THEN SendVal(i) ELSE 0

\* The state after the offer of candidate i ended with context w; fresh says
\* that the offer began a round.
Finish(w, i, fresh) ==
    /\ machine' = w.m
    /\ chans' = w.chans
    /\ selected' = w.sel
    /\ slot' = w.slot
    /\ pgot' = w.pgot
    /\ pc' = IF w.spin THEN "spin"
             ELSE IF w.hung THEN "hung" ELSE IF w.ok THEN "done" ELSE "loop"
    /\ nxt' = (i % cfg.n) + 1
    /\ last' = [seq |-> 1 - last.seq, kind |-> cfg.dir[i], cand |-> i,
                ok |-> w.ok, ret |-> w.ret, isLive |-> w.isLive, rep |-> w.rep]
    /\ hist' = [succ |-> Min2(hist.succ + (IF w.ok THEN 1 ELSE 0), 2),
                transfers |-> Min2(hist.transfers + w.xfer, 2),
                puts |-> Min2(hist.puts + w.put, 2),
                takes |-> Min2(hist.takes + w.take, 2),
                cycle |-> w.ev]
    /\ roundLive' = LET base == IF fresh THEN NoLive ELSE roundLive IN
                    IF w.isLive THEN [base EXCEPT ![i] = Min2(@ + 1, 2)] ELSE base
    /\ discSeen' = LET base == IF fresh THEN {} ELSE discSeen IN
                   IF w.isLive /\ w.m.state = "Try" /\ w.rep = "disc"
                   THEN base \cup {i} ELSE base

\* ------------------------------------------------- the selecting thread
\* Select::send / Select::recv of candidate nxt, Counting shape, another id.
OfferCount ==
    /\ pc = "loop"
    /\ machine.shape = "Counting"
    /\ machine.id_first # Id(nxt)
    /\ \E w \in {[Fail(Ctx, Given(nxt)) EXCEPT !.m = CountingNext(machine, Id(nxt))]} :
          Finish(w, nxt, FALSE)
    /\ UNCHANGED <<cfg, rng, expired>>

\* Counting shape, the first id again: Initialized, and position 0 is handled.
OfferInit ==
    /\ pc = "loop"
    /\ machine.shape = "Counting"
    /\ machine.id_first = Id(nxt)
    /\ \E x \in {XorShift(rng)} :
          /\ rng' = x
          /\ \E w0 \in {[Ctx EXCEPT !.m = CountingToInitialized(machine, x)]} :
                \E w \in {StepLoop(w0, nxt)} : Finish(w, nxt, TRUE)
    /\ UNCHANGED <<cfg, expired>>

\* Initialized shape, inside a round.
Offer ==
    /\ pc = "loop"
    /\ machine.shape = "Initialized"
    /\ ~RoundOver(machine)
    /\ \E w \in {Deliver(Ctx, nxt)} : Finish(w, nxt, FALSE)
    /\ UNCHANGED <<cfg, rng, expired>>

\* Initialized shape, the round is over, any state but Subscribe.
OfferTransition ==
    /\ pc = "loop"
    /\ machine.shape = "Initialized"
    /\ RoundOver(machine)
    /\ machine.state # "Subscribe"
    /\ \E w \in {NextRound(Ctx, nxt)} : Finish(w, nxt, TRUE)
    /\ UNCHANGED <<cfg, rng, expired>>

\* The round is over in Subscribe: the offer calls wait_until and blocks.
Park ==
    /\ pc = "loop"
    /\ machine.shape = "Initialized"
    /\ RoundOver(machine)
    /\ machine.state = "Subscribe"
    /\ selected' = SubscribePremark(machine, selected)
    /\ pc' = "parked"
    /\ hist' = [hist EXCEPT !.cycle = Append(@, Ev("wait", 0, FALSE))]
    /\ UNCHANGED <<cfg, machine, rng, expired, chans, slot, nxt, last,
                   pgot, roundLive, discSeen>>

\* wait_until returns; the offer goes on as position 0 of the Unsubscribe round.
Wake ==
    /\ pc = "parked"
    /\ WaitOver
    /\ \E w \in {NextRound(Ctx, nxt)} : Finish(w, nxt, TRUE)
    /\ UNCHANGED <<cfg, rng, expired>>

\* The handle goes out of scope between two offers: Select has no Drop.
DropSelect ==
    /\ pc = "loop"
    /\ pc' = "dropped"
    /\ UNCHANGED <<cfg, machine, rng, expired, chans, selected, slot, nxt, last,
                   hist, pgot, roundLive, discSeen>>

\* Instant::now() passes the deadline.
Tick ==
    /\ cfg.hasDeadline
    /\ ~expired
    /\ expired' = TRUE
    /\ UNCHANGED <<cfg, machine, rng, chans, selected, slot, pc, nxt, last,
                   hist, pgot, roundLive, discSeen>>

\* ------------------------------------------------------ the other threads
Active == pc \in {"loop", "parked"}
Buffered(i) == cfg.flavor[i] \in {"List", "Array"}
Cap(i) == IF cfg.flavor[i] = "Array" THEN ArrayCap ELSE MaxBuf

\* A successful operation on a buffered channel wakes a thread registered
\* on the other side of it.
Notify(i, side) ==
    IF chans[i].reg > 0 /\ cfg.dir[i] = side
    THEN ActorSelect(selected, Id(i)) ELSE selected

\* Another thread's try_send on channel i.  Zero: it needs the selecting
\* thread's recv promise, marks that thread and puts the request.
PartnerTrySend(i) ==
    /\ Active
    /\ ~chans[i].disc
    /\ IF Buffered(i)
       THEN /\ Len(chans[i].buf) < Cap(i)
            /\ chans' = [chans EXCEPT ![i].buf = Append(@, PartnerVal(i))]
            /\ selected' = Notify(i, "recv")
            /\ UNCHANGED <<slot, hist>>
       ELSE /\ cfg.dir[i] = "recv"
            /\ chans[i].reg > 0
            /\ selected = 0
            /\ selected' = Id(i)
            /\ slot' = <<PartnerVal(i)>>
            /\ hist' = [hist EXCEPT !.puts = Min2(@ + 1, 2)]
            /\ UNCHANGED chans
    /\ UNCHANGED <<cfg, machine, rng, expired, pc, nxt, last, pgot, roundLive,
                   discSeen>>

\* Another thread's try_recv on channel i.  Zero: it needs the selecting
\* thread's send promise, marks that thread and waits for the request.
PartnerTryRecv(i) ==
    /\ Active
    /\ IF Buffered(i)
       THEN /\ cfg.dir[i] = "recv" \/ ~chans[i].disc
            /\ chans[i].buf # <<>>
            /\ chans' = [chans EXCEPT ![i].buf = Tail(@)]
            /\ selected' = Notify(i, "send")
       ELSE /\ cfg.dir[i] = "send"
            /\ ~chans[i].disc
            /\ ~chans[i].taker
            /\ chans[i].reg > 0
            /\ selected = 0
            /\ selected' = Id(i)
            /\ chans' = [chans EXCEPT ![i].taker = TRUE]
    /\ UNCHANGED <<cfg, machine, rng, expired, slot, pc, nxt, last, hist, pgot,
                   roundLive, discSeen>>

\* The partner that marked the selecting thread takes the request it put.
PartnerTake(i) ==
    /\ chans[i].taker
    /\ slot # <<>>
    /\ slot' = <<>>
    /\ pgot' = [pgot EXCEPT ![i] = Append(@, slot[1])]
    /\ chans' = [chans EXCEPT ![i].taker = FALSE]
    /\ hist' = [hist EXCEPT !.takes = Min2(@ + 1, 2)]
    /\ UNCHANGED <<cfg, machine, rng, expired, selected, pc, nxt, last,
                   roundLive, discSeen>>

\* The partner of a rendezvous channel blocks in send or recv.
PartnerWait(i) ==
    /\ Active
    /\ cfg.flavor[i] = "Zero"
    /\ ~chans[i].disc /\ ~chans[i].waiting /\ ~chans[i].taker
    /\ ~(chans[i].reg > 0 /\ selected = 0)
    /\ chans' = [chans EXCEPT ![i].waiting = TRUE]
    /\ UNCHANGED <<cfg, machine, rng, expired, selected, slot, pc, nxt, last,
                   hist, pgot, roundLive, discSeen>>

\* The last endpoint of the other side of channel i is dropped.
PartnerDrop(i) ==
    /\ Active
    /\ ~chans[i].disc /\ ~chans[i].waiting /\ ~chans[i].taker
    /\ chans' = [chans EXCEPT ![i].disc = TRUE]
    /\ UNCHANGED <<cfg, machine, rng, expired, selected, slot, pc, nxt, last,
                   hist, pgot, roundLive, discSeen>>

\* ------------------------------------------------------- specifications
Flavors == {"List", "Array", "Zero"}
Dirs == {"send", "recv"}
Configs ==
    UNION {[n : {k}, dir : [1..k -> Dirs], flavor : [1..k -> Flavors],
            hasDeadline : BOOLEAN, zero : {0}] : k \in 1..MaxCand}

InitWith(c, ch) ==
    /\ cfg = c
    /\ machine = NewMachine
    /\ rng \in Seeds
    /\ expired = FALSE
    /\ chans = ch
    /\ selected = 0
    /\ slot = <<>>
    /\ pc = "loop"
    /\ nxt = 1
    /\ last = [seq |-> 0, kind |-> "none", cand |-> 0, ok |-> FALSE, ret |-> 0,
               isLive |-> FALSE, rep |-> "none"]
    /\ hist = [succ |-> 0, transfers |-> 0, puts |-> 0, takes |-> 0,
               cycle |-> <<>>]
    /\ pgot = [i \in 1..c.n |-> <<>>]
    /\ roundLive = [i \in 1..c.n |-> 0]
    /\ discSeen = {}

Init == \E c \in Configs : InitWith(c, [i \in 1..c.n |-> NewChan])

Select == OfferCount \/ OfferInit \/ Offer \/ OfferTransition \/ Park \/ Wake

Partners ==
    \E i \in Cands :
        \/ PartnerTrySend(i)
        \/ PartnerTryRecv(i)
        \/ PartnerTake(i)
        \/ PartnerWait(i)
        \/ PartnerDrop(i)

Next == Select \/ Partners \/ Tick \/ DropSelect

Spec == Init /\ [][Next]_vars

\* No other thread acts while the selection runs: the channels are as earlier
\* threads left them (connected or not, messages left in the buffers).
LeftIn(c, i) ==
    IF c.flavor[i] = "Zero" THEN {<<>>}
    ELSE {[k \in 1..l |-> PartnerVal(i)] :
             l \in 0..(IF c.flavor[i] = "Array" THEN ArrayCap ELSE MaxBuf)}

InitIdle ==
    \E c \in Configs :
        \E bufs \in [1..c.n -> UNION {LeftIn(c, i) : i \in 1..c.n}],
           discs \in [1..c.n -> BOOLEAN] :
            /\ \A i \in 1..c.n : bufs[i] \in LeftIn(c, i)
            /\ InitWith(c, [i \in 1..c.n |->
                              [NewChan EXCEPT !.buf = bufs[i], !.disc = discs[i]]])

NextIdle == Select \/ Tick

\* The caller loop keeps offering and time passes.
SpecIdle == InitIdle /\ [][NextIdle]_vars /\ WF_vars(Select) /\ WF_vars(Tick)

\* No other thread acts, and either every channel is disconnected and empty
\* or every channel is connected and no candidate can proceed: nothing to
\* receive, a full bounded channel or a rendezvous channel to send on.
InitQuiet ==
    \E c \in Configs, closed \in BOOLEAN :
        /\ closed \/ \A i \in 1..c.n : ~(c.dir[i] = "send" /\ c.flavor[i] = "List")
        /\ InitWith(c, [i \in 1..c.n |->
                          [NewChan EXCEPT
                             !.disc = closed,
                             !.buf = IF ~closed /\ c.dir[i] = "send"
                                        /\ c.flavor[i] = "Array"
                                     THEN [k \in 1..ArrayCap |-> PartnerVal(i)]
                                     ELSE <<>>]])

SpecQuiet == InitQuiet /\ [][NextIdle]_vars /\ WF_vars(Select) /\ WF_vars(Tick)

\* The selection offers recv on the rendezvous channel 1 and on other
\* channels; one partner keeps trying to send on channel 1, by try_send or
\* by blocking in send, and nobody sends on the others.
ConfigsRecv ==
    {c \in Configs : /\ c.n >= 2
                     /\ c.flavor[1] = "Zero"
                     /\ \A i \in 1..c.n : c.dir[i] = "recv"}

InitRecv == \E c \in ConfigsRecv : InitWith(c, [i \in 1..c.n |-> NewChan])

PartnerSends == PartnerTrySend(1) \/ PartnerWait(1)

NextRecv == Select \/ Tick \/ PartnerSends

SpecRecv ==
    InitRecv /\ [][NextRecv]_vars /\ WF_vars(Select) /\ WF_vars(PartnerSends)

\* The endpoint ids are not validated: one of the candidates may come with
\* the id 0.  No other thread acts.
ConfigsIds == {[c EXCEPT !.zero = z] : c \in Configs, z \in 0..MaxCand}

InitIds ==
    \E c \in ConfigsIds :
        c.zero <= c.n /\ InitWith(c, [i \in 1..c.n |-> NewChan])

SpecIds == InitIds /\ [][NextIdle]_vars

\* The other threads send what they have to send and drop their endpoints
\* while the selection runs.
PartnerCloses == \E i \in Cands : PartnerTrySend(i) \/ PartnerDrop(i)

NextClose == Select \/ Tick \/ PartnerCloses

SpecClose == Init /\ [][NextClose]_vars /\ WF_vars(Select)

\* ================================================================ claims
AllCands == 1..cfg.n
OfferStep == last'.seq # last.seq
Bufs(ch) == [i \in DOMAIN ch |-> ch[i].buf]

\* Handoffs a partner has committed to and the handle has not yet served: a
\* partner waiting for the request of a promised send, or a request a
\* partner has put for a promised recv.
Pending ==
    Cardinality({i \in AllCands : chans[i].taker /\ slot = <<>>})
    + (IF slot # <<>> /\ \A i \in AllCands : ~chans[i].taker THEN 1 ELSE 0)

\* C1: with a caller loop that stops at the first success, at most one offer
\* of a handle returns success, every success is exactly one real transfer,
\* no failing offer transfers anything, and at most one transfer or committed
\* handoff exists on behalf of the handle at any time.
C1_AtMostOneTransfer ==
    /\ hist.succ <= 1
    /\ hist.transfers = hist.succ
    /\ hist.transfers + Pending <= 1
    /\ (hist.succ = 1 => pc = "done" /\ last.ok)

C1_Witness ==
    /\ pc = "done" /\ hist.transfers = 1 /\ cfg.n = 2
    /\ machine.state = "FinalTry" /\ machine.id = Id(last.cand)

\* C4: when every candidate's attempt of a Try round reported Disconnected,
\* the offer that ends the round makes the state Disconnected; from then on
\* disconnected() stays true and every offer fails.
C4_AllClosedDisconnects ==
    /\ [][(machine.shape = "Initialized" /\ machine.state = "Try"
           /\ RoundOver(machine) /\ discSeen = AllCands /\ OfferStep)
          => disconnected']_vars
    /\ [][disconnected => (disconnected' /\ (OfferStep => ~last'.ok))]_vars

C4_Witness ==
    /\ disconnected /\ cfg.n = 2 /\ machine.pos = 2
    /\ last.cand = 2 /\ ~last.ok /\ pc = "loop"

\* C6: a failing send offer returns the value it was given and leaves every
\* channel buffer, the request slot and what the partners received unchanged.
C6_FailedSendReturnsValue ==
    [][(OfferStep /\ last'.kind = "send" /\ ~last'.ok)
       => /\ last'.ret = SendVal(last'.cand)
          /\ Bufs(chans') = Bufs(chans)
          /\ slot' = slot
          /\ pgot' = pgot
          /\ hist'.transfers = hist.transfers]_vars

C6_Witness ==
    /\ last.kind = "send" /\ ~last.ok /\ last.isLive /\ last.rep = "full"
    /\ machine.shape = "Initialized" /\ machine.state = "FinalTry"
    /\ last.ret = SendVal(last.cand)

\* C7: on a rendezvous channel the value a send offer hands over reaches the
\* partner unchanged and once; the request slot is written at most once per
\* handle, never read more often than written, never read before it is
\* written, and a written request always has its reader.
C7_RendezvousRoundTrip ==
    /\ hist.puts <= 1
    /\ hist.takes <= hist.puts
    /\ (slot # <<>> <=> hist.puts = hist.takes + 1)
    /\ pc # "hung"
    /\ \A i \in AllCands :
          /\ Len(pgot[i]) <= 1
          /\ pgot[i] # <<>> =>
                cfg.dir[i] = "send" /\ pgot[i][1] = SendVal(i) /\ pc = "done"
    /\ (last.ok /\ last.kind = "recv" /\ cfg.flavor[last.cand] = "Zero")
          => last.ret = PartnerVal(last.cand)
    /\ (slot # <<>> /\ pc # "dropped") =>
          \/ \E i \in AllCands : chans[i].taker /\ slot = <<SendVal(i)>>
          \/ \E i \in AllCands :
                /\ cfg.dir[i] = "recv" /\ cfg.flavor[i] = "Zero"
                /\ selected = Id(i) /\ slot = <<PartnerVal(i)>>
                /\ pc \in {"loop", "parked"}

C7_Witness ==
    /\ pc = "done" /\ last.kind = "send" /\ cfg.flavor[last.cand] = "Zero"
    /\ machine.state = "FinalTry"
    /\ pgot[last.cand] = <<SendVal(last.cand)>>
    /\ hist.puts = 1 /\ hist.takes = 1 /\ slot = <<>>

\* C10: a handle abandoned after its Subscribe round has registered leaves no
\* registration or promise on any endpoint.
C10_DropRetracts == pc = "dropped" => \A i \in AllCands : chans[i].reg = 0

\* The candidate's operation cannot proceed: nothing to receive, or no room,
\* no receiver or no connection to send to.
CannotProceed(i) ==
    IF cfg.dir[i] = "recv" THEN chans[i].buf = <<>>
    ELSE \/ chans[i].disc
         \/ cfg.flavor[i] = "Zero"
         \/ cfg.flavor[i] = "Array" /\ Len(chans[i].buf) = ArrayCap

Quiet ==
    /\ \A i \in AllCands : CannotProceed(i)
    /\ \E i \in AllCands : ~chans[i].disc

C8_CountingPhase ==
    /\ [](machine.shape = "Counting" =>
            /\ machine.len = (IF nxt = 1 /\ last.kind # "none" THEN cfg.n ELSE nxt - 1)
            /\ machine.id_first = (IF machine.len = 0 THEN 0 ELSE Id(1))
            /\ ~last.ok /\ ~last.isLive
            /\ (machine.len = cfg.n =>
                  LET m == CountingToInitialized(machine, XorShift(rng)) IN
                    /\ m.shape = "Initialized" /\ m.len = cfg.n /\ m.pos = 0
                    /\ m.state = "Try" /\ m.closed_count = 0
                    /\ m.start \in 0..(cfg.n - 1)))
    /\ [](machine.shape = "Initialized" =>
            machine.len = cfg.n /\ machine.start \in 0..(cfg.n - 1))
    /\ [][(machine.shape = "Counting" /\ OfferStep) =>
            IF machine.len < cfg.n
            THEN /\ machine'.shape = "Counting" /\ ~last'.ok
                 /\ chans' = chans /\ selected' = selected /\ slot' = slot
            ELSE /\ machine'.shape = "Initialized" /\ machine'.pos = 1
                 /\ machine'.state = "Try"]_vars

C8_Witness ==
    /\ machine.shape = "Initialized" /\ cfg.n = 2 /\ machine.len = 2
    /\ machine.start = 0 /\ machine.pos = 1 /\ machine.state = "Try"
    /\ machine.closed_count = 0 /\ last.isLive

\* The number of live positions p < pos of the current round at which the
\* caller's fixed order offers candidate i.
LiveBefore(i) ==
    Cardinality({p \in 0..(machine.pos - 1) :
                    Live(machine, p) /\ (p % machine.len) + 1 = i})

\* C9: in every round exactly len of the 2 * len positions are live, the
\* caller's fixed order puts every candidate at exactly one live position,
\* which is where the state was delivered to it, and len and start never
\* change.
C9_LivePositions ==
    /\ [](machine.shape = "Initialized" =>
            /\ Cardinality({p \in 0..(2 * machine.len - 1) : Live(machine, p)})
                  = machine.len
            /\ \A i \in AllCands :
                  Cardinality({p \in 0..(2 * machine.len - 1) :
                                  Live(machine, p) /\ (p % machine.len) + 1 = i}) = 1
            /\ machine.pos <= 2 * machine.len
            /\ pc \in {"loop", "parked"} => nxt = (machine.pos % machine.len) + 1
            /\ \A i \in AllCands : roundLive[i] = LiveBefore(i)
            /\ RoundOver(machine) => \A i \in AllCands : roundLive[i] = 1)
    /\ [][machine.shape = "Initialized" =>
            /\ machine'.shape = "Initialized"
            /\ machine'.len = machine.len
            /\ machine'.start = machine.start]_vars

C9_Witness ==
    /\ machine.shape = "Initialized" /\ cfg.n = 2 /\ machine.start = 1
    /\ machine.state = "FinalTry" /\ RoundOver(machine)
    /\ roundLive = [i \in AllCands |-> 1]

ReceivedA == pc = "done" /\ last.ok /\ last.cand = 1 /\ last.ret = PartnerVal(1)

\* C2: no missed wakeup.  While the deadline has not passed the recv offer on
\* channel 1 eventually returns the partner's value; a thread that is marked
\* does not stay parked; and a request the partner has put is always
\* received, whenever the partner got its chance.
C2_NoMissedWakeup ==
    /\ <>(ReceivedA \/ expired)
    /\ [](pc = "parked" /\ selected # 0 => <>(pc # "parked"))
    /\ [](slot # <<>> => <>ReceivedA)

C2_Witness ==
    /\ ReceivedA /\ machine.state = "FinalTry" /\ machine.id = Id(1)
    /\ hist.puts = 1 /\ hist.takes = 1 /\ ~expired

Edges ==
    {<<"Try", "Subscribe">>, <<"Try", "Disconnected">>,
     <<"Subscribe", "Unsubscribe">>, <<"Unsubscribe", "FinalTry">>,
     <<"FinalTry", "Try">>, <<"FinalTry", "TimedOut">>}

\* C11: after initialization the protocol state changes only along the six
\* edges, only in the offer that finds a round of 2 * len positions complete,
\* and that offer is handled as position 0 of the next round; every such
\* offer changes the state unless it is terminal, and an offer inside a round
\* advances the position by one and leaves the state alone.
C11_EdgesOncePerRound ==
    [][machine.shape = "Initialized" =>
         /\ machine'.state # machine.state =>
               /\ <<machine.state, machine'.state>> \in Edges
               /\ machine.pos = 2 * machine.len
               /\ OfferStep
         /\ (OfferStep /\ machine.pos = 2 * machine.len) =>
               /\ machine.state \notin {"TimedOut", "Disconnected"}
                     => machine'.state # machine.state
               /\ machine'.pos = 1
               /\ last'.cand = nxt
               /\ last'.isLive = (machine.start = 0)
         /\ (OfferStep /\ machine.pos < 2 * machine.len) =>
               /\ machine'.pos = machine.pos + 1
               /\ machine'.state = machine.state]_vars

C11_Witness ==
    /\ machine.shape = "Initialized" /\ cfg.n = 2 /\ machine.state = "FinalTry"
    /\ machine.pos = 1 /\ machine.start = 0 /\ last.isLive /\ last.cand = 1

\* The candidate offered at the k-th live position of a round.
CandAt(k) == ((machine.start + k - 1) % cfg.n) + 1
\* The calls of one complete cycle, in order.
FullCycle ==
    <<[e |-> "reset", c |-> 0]>>
    \o [k \in 1..cfg.n |-> [e |-> "sub", c |-> CandAt(k)]]
    \o <<[e |-> "wait", c |-> 0]>>
    \o [k \in 1..cfg.n |-> [e |-> "unsub", c |-> CandAt(k)]]
    \o <<[e |-> "read", c |-> 0]>>
Strip(tr) == [k \in DOMAIN tr |-> [e |-> tr[k].e, c |-> tr[k].c]]
IsPrefix(a, b) == Len(a) <= Len(b) /\ \A k \in 1..Len(a) : a[k] = b[k]
\* Candidates whose Subscribe step leaves a registration or promise.
Registers(i) == ~(cfg.dir[i] = "send" /\ cfg.flavor[i] = "List")

\* C12: the calls of a cycle happen in the order reset, one registration per
\* candidate, wait_until, one unregistration per candidate, read of the
\* winner id; the thread blocks only after all registrations are made, and no
\* reset happens between the first registration and the read of the winner.
C12_CycleOrder ==
    /\ machine.shape = "Counting" => hist.cycle = <<>>
    /\ machine.shape = "Initialized" =>
          /\ IsPrefix(Strip(hist.cycle), FullCycle)
          /\ pc = "parked" =>
                /\ machine.state = "Subscribe"
                /\ Len(hist.cycle) = cfg.n + 2
                /\ \A i \in AllCands : Registers(i) => chans[i].reg = 1
          /\ (machine.state = "Subscribe" /\ pc # "parked") =>
                Len(hist.cycle) \in 1..(cfg.n + 1)
          /\ machine.state = "Unsubscribe" =>
                Len(hist.cycle) \in (cfg.n + 2)..(2 * cfg.n + 2)
          /\ machine.state = "FinalTry" => Len(hist.cycle) = 2 * cfg.n + 3

C12_Witness ==
    /\ machine.shape = "Initialized" /\ machine.state = "FinalTry"
    /\ cfg.n = 2 /\ machine.start = 1
    /\ Strip(hist.cycle) = FullCycle

\* Can the operation of candidate i proceed on the channels ch?
ReadyOn(ch, i) ==
    IF cfg.dir[i] = "send" THEN can_send([chans |-> ch], i)
    ELSE can_recv([chans |-> ch], i)

\* C13: a candidate found sendable or receivable right after its registration
\* in the Subscribe round marks the thread with its own endpoint id (unless
\* the thread is marked already).
C13_PremarkOwnId ==
    [][(/\ OfferStep
        /\ machine'.shape = "Initialized" /\ machine'.state = "Subscribe"
        /\ last'.isLive
        /\ ReadyOn(chans', last'.cand))
       => selected' = (IF machine.state = "Try" \/ selected = 0
                       THEN Id(last'.cand) ELSE selected)]_vars

\* C14: TimedOut is entered only by the offer that ends a FinalTry round, and
\* only with a deadline that has passed; a timed-out handle has a complete
\* Subscribe / wait / Unsubscribe / FinalTry cycle behind it, whenever the
\* deadline passed; a candidate that can proceed succeeds in the Try round
\* whether or not the deadline has passed; without deadline timed_out() is
\* never true.
C14_DeadlineAtFinalTry ==
    /\ [][(~timed_out /\ timed_out') =>
            /\ machine.shape = "Initialized" /\ machine.state = "FinalTry"
            /\ machine.pos = 2 * machine.len
            /\ OfferStep
            /\ cfg.hasDeadline /\ expired]_vars
    /\ [](timed_out =>
            /\ cfg.hasDeadline /\ expired
            /\ Strip(hist.cycle) = FullCycle)
    /\ [](~cfg.hasDeadline => ~timed_out)
    /\ [][(/\ OfferStep
           /\ machine'.shape = "Initialized" /\ machine'.state = "Try"
           /\ last'.isLive
           /\ ReadyOn(chans, last'.cand)
           /\ cfg.dir[last'.cand] = "send" => ~chans[last'.cand].disc)
          => last'.ok]_vars

C14_Witness ==
    /\ timed_out /\ cfg.n = 2 /\ machine.pos = 1 /\ expired
    /\ Strip(hist.cycle) = FullCycle /\ hist.succ = 0

\* C15: in a FinalTry round an offer of a candidate whose id is not the winner
\* id, or at a position that is not live, fails and leaves every channel,
\* every registration and the request slot as they are; a winner on a
\* buffered channel whose single attempt fails makes the offer fail; and the
\* offer that ends the FinalTry round goes to TimedOut when the deadline has
\* passed and else to Try, with closed_count counting from 0.
C15_FinalTryWinnerOnly ==
    /\ [][(/\ OfferStep
           /\ machine'.shape = "Initialized" /\ machine'.state = "FinalTry"
           /\ ~last'.isLive \/ Id(last'.cand) # machine'.id)
          => /\ ~last'.ok
             /\ last'.rep = "none"
             /\ chans' = chans /\ slot' = slot /\ pgot' = pgot]_vars
    /\ [][(/\ OfferStep
           /\ machine'.shape = "Initialized" /\ machine'.state = "FinalTry"
           /\ last'.isLive /\ Id(last'.cand) = machine'.id
           /\ cfg.flavor[last'.cand] # "Zero")
          => /\ last'.ok = (last'.rep = "none")
             /\ ~last'.ok => chans' = chans /\ slot' = slot /\ pgot' = pgot
             /\ last'.ok => \A j \in AllCands \ {last'.cand} : chans'[j] = chans[j]]_vars
    /\ [][(/\ OfferStep
           /\ machine.shape = "Initialized" /\ machine.state = "FinalTry"
           /\ machine.pos = 2 * machine.len)
          => /\ machine'.state = (IF cfg.hasDeadline /\ expired
                                  THEN "TimedOut" ELSE "Try")
             /\ machine'.closed_count =
                   (IF last'.isLive /\ last'.rep = "disc" /\ machine'.state = "Try"
                    THEN 1 ELSE 0)]_vars

\* The winner's single attempt on a buffered channel has failed.
C15_Witness ==
    /\ machine.shape = "Initialized" /\ machine.state = "FinalTry" /\ cfg.n = 2
    /\ last.isLive /\ Id(last.cand) = machine.id /\ ~last.ok
    /\ last.rep \in {"full", "empty", "disc"}

\* C16: TimedOut and Disconnected are absorbing: the state stays, every later
\* offer fails and leaves the channels, the wake marker, the request slot and
\* what the partners received untouched; timed_out() and disconnected() are
\* never both true, and both are false while the machine is Counting.
C16_TerminalAbsorbing ==
    /\ [](~(timed_out /\ disconnected))
    /\ [](machine.shape = "Counting" => ~timed_out /\ ~disconnected)
    /\ [][timed_out => timed_out']_vars
    /\ [][disconnected => disconnected']_vars
    /\ [][((timed_out \/ disconnected) /\ OfferStep) =>
            /\ ~last'.ok
            /\ last'.rep = "none"
            /\ chans' = chans /\ selected' = selected /\ slot' = slot
            /\ pgot' = pgot
            /\ hist' = hist
            /\ pc' = "loop"
            /\ machine'.closed_count = 0]_vars

C16_Witness ==
    /\ timed_out /\ cfg.n = 2 /\ machine.pos = 2 /\ last.isLive /\ ~last.ok
    /\ last.kind = "recv" /\ pc = "loop"
    /\ chans[last.cand].buf # <<>>

\* The Subscribe round is complete and every candidate's endpoint was
\* disconnected when the candidate was registered.
AllClosedAtRegistration ==
    /\ machine.shape = "Initialized" /\ machine.state = "Subscribe"
    /\ machine.pos = 2 * machine.len
    /\ Len(hist.cycle) >= cfg.n + 1
    /\ \A k \in 2..(cfg.n + 1) : hist.cycle[k].e = "sub" /\ hist.cycle[k].d

\* C17 as stated: when every endpoint was disconnected at its registration
\* the thread does not stay blocked and the selection eventually reports
\* disconnected().
C17_ClosedAtRegistration ==
    /\ (pc = "parked" /\ AllClosedAtRegistration) ~> (pc # "parked")
    /\ AllClosedAtRegistration ~> disconnected

\* C17, amended: the thread is pre-marked and does not stay blocked, with or
\* without a deadline, and the selection eventually reports disconnected(),
\* or receives a message left in a disconnected channel, or reports
\* timed_out() when its deadline has passed.
C17_ClosedAtRegistrationProgress ==
    /\ [](AllClosedAtRegistration => machine.closed_countdown < 0)
    /\ [](pc = "parked" /\ AllClosedAtRegistration => selected # 0)
    /\ (pc = "parked" /\ AllClosedAtRegistration) ~> (pc # "parked")
    /\ AllClosedAtRegistration ~>
          \/ disconnected
          \/ pc = "done" /\ last.kind = "recv" /\ chans[last.cand].disc
          \/ timed_out /\ cfg.hasDeadline /\ expired
    /\ (AllClosedAtRegistration /\ ~cfg.hasDeadline
        /\ \A i \in AllCands : chans[i].buf = <<>>) ~> disconnected

\* Without deadline, nothing in the channels: the thread was parked with
\* the pre-mark and the selection has reported disconnected().
C17_Witness ==
    /\ disconnected /\ ~cfg.hasDeadline /\ cfg.n = 2
    /\ Len(hist.cycle) = 2 * cfg.n + 3
    /\ \A k \in 2..(cfg.n + 1) : hist.cycle[k].d
    /\ machine.closed_count = 0
    /\ \A i \in AllCands : cfg.dir[i] = "recv" /\ chans[i].buf = <<>>

\* Candidate i has had its Subscribe step in the current cycle and not yet
\* its Unsubscribe step.
Subscribed(i) ==
    /\ \E k \in DOMAIN hist.cycle : hist.cycle[k].e = "sub" /\ hist.cycle[k].c = i
    /\ ~\E k \in DOMAIN hist.cycle : hist.cycle[k].e = "unsub" /\ hist.cycle[k].c = i

\* C18: a candidate has one registration or promise on its endpoint exactly
\* between its Subscribe step and its Unsubscribe step of the same cycle, so
\* registrations exist only in the Subscribe and Unsubscribe rounds, and none
\* is left when an offer has succeeded or the handle is TimedOut or
\* Disconnected.
C18_RegistrationsBalanced ==
    /\ \A i \in AllCands :
          chans[i].reg = (IF Registers(i) /\ Subscribed(i) THEN 1 ELSE 0)
    /\ (\E i \in AllCands : chans[i].reg > 0) =>
          machine.shape = "Initialized"
          /\ machine.state \in {"Subscribe", "Unsubscribe"}
    /\ (pc = "done" \/ last.ok \/ timed_out \/ disconnected) =>
          \A i \in AllCands : chans[i].reg = 0

C18_Witness ==
    /\ pc = "done" /\ last.ok /\ cfg.n = 2
    /\ Strip(hist.cycle) = FullCycle
    /\ \A i \in AllCands : Registers(i) /\ chans[i].reg = 0

\* C19: closed_count never exceeds the number of candidates; in a Try round
\* it is the number of candidates whose attempt has reported Disconnected in
\* this round, every offer adds one exactly when its attempt reports
\* Disconnected, and at the end of the round it equals the number of
\* candidates exactly when all of them reported Disconnected.
C19_ClosedCount ==
    /\ [](machine.shape = "Initialized" =>
            /\ machine.closed_count <= cfg.n
            /\ machine.state # "Try" => machine.closed_count = 0
            /\ machine.state = "Try" =>
                  /\ machine.closed_count = Cardinality(discSeen)
                  /\ discSeen \subseteq {i \in AllCands : roundLive[i] = 1}
                  /\ machine.pos = 2 * machine.len =>
                        (machine.closed_count = cfg.n <=> discSeen = AllCands))
    /\ [][(/\ OfferStep
           /\ machine.shape = "Initialized" /\ machine.state = "Try"
           /\ machine.pos < 2 * machine.len)
          => machine'.closed_count = machine.closed_count
                + (IF last'.isLive /\ last'.rep = "disc" THEN 1 ELSE 0)]_vars
    /\ [][(OfferStep /\ machine'.shape = "Initialized" /\ machine'.state = "Try"
           /\ last'.rep = "disc")
          => ~last'.ok /\ chans'[last'.cand].disc]_vars

C19_Witness ==
    /\ machine.shape = "Initialized" /\ machine.state = "Try" /\ cfg.n = 2
    /\ machine.pos = 2 * machine.len /\ machine.closed_count = 1
    /\ Cardinality(discSeen) = 1
    /\ \A i \in AllCands : chans[i].disc

\* C20: every call of Machine::step returns, whatever ids are offered, the
\* id 0 as the first one included: no offer stays in the loop of step.
C20_StepReturns == pc # "spin"
====
